---- MODULE Spec2Model ----
(***************************************************************************)
(* Model of src/linalg/animated_transform.rs (tray_rust): AnimatedTransform *)
(* with_keyframes, transform, animation_bounds, is_animated and Mul::mul.   *)
(*                                                                          *)
(* Numbers.  All keyframes of the model rotate about the x axis, so every   *)
(* pose matrix is block diagonal and its x row is the 1-D affine map        *)
(* x |-> scaling * x + translation; composition and box transformation of   *)
(* the full matrices restrict exactly to that row.  The model is that x     *)
(* projection.  Reals are exact fixed-point numbers: a Transform or BBox    *)
(* with field k holds numerators over Den^k.  A time passed to transform    *)
(* is a numerator over TimeDen (= 127), so that the sample times            *)
(* lerp(i/127, start, end) of animation_bounds are exact.                   *)
(***************************************************************************)
EXTENDS Integers, Sequences, FiniteSets

\* ------------------------------------------------------------------ bounds
MaxTime == 1
MaxLevels == 2
MaxKeys == 3

\* `for i in 0..128` of animation_bounds
NumSamples == 128

\* (i as f32) / 127.0 : denominator of the sampling fraction and of times
TimeDen == NumSamples - 1
\* common denominator of interpolated keyframe fields
Den == TimeDen * MaxTime

VARIABLES a, b, call, ret
vars == <<a, b, call, ret>>

\* ------------------------------------------------------- primitive types
\* Quaternion <<x, y, z, w>>
QId == <<0, 0, 0, 1>>
QHalfTurnX == <<1, 0, 0, 0>>

QNeg(q) == [i \in 1..4 |-> 0 - q[i]]

QDot(p, q) == p[1] * q[1] + p[2] * q[2] + p[3] * q[3] + p[4] * q[4]

Min(x, y) == IF x <= y THEN x ELSE y
Max(x, y) == IF x >= y THEN x ELSE y

\* linalg::lerp(t, a, b) = a * (1 - t) + b * t with t = tnum / TimeDen;
\* the result is a numerator over TimeDen.
lerp(tnum, x, y) == x * (TimeDen - tnum) + y * tnum

\* Transform: x |-> (m * x + d) / Den^k
TransformIdentity == [m |-> 1, d |-> 0, k |-> 0]

\* Transform * Transform: (t2 * t1)(x) = t2(t1(x))
TransformMul(t2, t1) ==
    [m |-> t2.m * t1.m,
     d |-> t2.m * t1.d + t2.d * Den ^ t1.k,
     k |-> t2.k + t1.k]

\* Keyframe::transform(): translate * rotate * scale, x row.  kf holds
\* numerators over Den^k.
KeyframeTransform(kf, k) == [m |-> kf.scaling, d |-> kf.translation, k |-> k]

\* BBox::new(): the empty box
BBoxNew == [empty |-> TRUE, min |-> 0, max |-> 0, k |-> 0]

BBoxRescale(bx, k) ==
    IF bx.empty THEN bx
    ELSE [empty |-> FALSE, min |-> bx.min * Den ^ (k - bx.k),
          max |-> bx.max * Den ^ (k - bx.k), k |-> k]

box_union(b1, b2) ==
    IF b1.empty THEN b2
    ELSE IF b2.empty THEN b1
    ELSE LET k == Max(b1.k, b2.k)
             r1 == BBoxRescale(b1, k)
             r2 == BBoxRescale(b2, k)
         IN  [empty |-> FALSE, min |-> Min(r1.min, r2.min),
              max |-> Max(r1.max, r2.max), k |-> k]

\* Transform * BBox: the box of the transformed corners
TransformBBox(t, bx) ==
    IF bx.empty THEN bx
    ELSE LET lo == t.m * bx.min + t.d * Den ^ bx.k
             hi == t.m * bx.max + t.d * Den ^ bx.k
         IN  [empty |-> FALSE, min |-> Min(lo, hi), max |-> Max(lo, hi),
              k |-> t.k + bx.k]

\* ------------------------------------------------------- curve evaluator
BSplineNew(degree, control_points, knots) ==
    [degree |-> degree, control_points |-> control_points, knots |-> knots]

\* BSpline::point(t) for the degree-1 curve over the knot domain
\* [knots[degree], knots[len - 1 - degree]] (0-based): the blend of the first
\* two control points, clamped to the domain.  time is a numerator over
\* TimeDen; the fields of the result are numerators over Den.  Only the fields
\* the x row of the pose reads are blended (the rotation is about x).
BSplinePoint(spline, time) ==
    LET t0 == spline.knots[spline.degree + 1]
        t1 == spline.knots[Len(spline.knots) - spline.degree]
        p0 == spline.control_points[1]
        p1 == spline.control_points[2]
        span == TimeDen * (t1 - t0)
        u == Max(0, Min(span, time - TimeDen * t0))
    IN  IF span = 0
        THEN LET p == IF time <= TimeDen * t0 THEN p0 ELSE p1
             IN  [translation |-> p.translation * Den, scaling |-> p.scaling * Den]
        ELSE LET w == Den \div span
             IN  [translation |-> (p0.translation * (span - u) + p1.translation * u) * w,
                  scaling |-> (p0.scaling * (span - u) + p1.scaling * u) * w]

\* -------------------------------------------------------- with_keyframes
\* Ord for Keyframe: time is the sole ordering key
KeyframeLess(k1, k2) == k1.time < k2.time

RECURSIVE InsertSorted(_, _)
InsertSorted(sorted, kf) ==
    IF sorted = <<>> THEN <<kf>>
    ELSE IF KeyframeLess(kf, sorted[Len(sorted)])
         THEN Append(InsertSorted(SubSeq(sorted, 1, Len(sorted) - 1), kf),
                     sorted[Len(sorted)])
         ELSE Append(sorted, kf)

RECURSIVE SortFrom(_, _, _)
SortFrom(keyframes, i, sorted) ==
    IF i > Len(keyframes) THEN sorted
    ELSE SortFrom(keyframes, i + 1, InsertSorted(sorted, keyframes[i]))

\* keyframes.sort(): stable, ascending by time
SortNone(keyframes) == keyframes
Sort(keyframes) == SortFrom(keyframes, 1, <<>>)

\* body of `for i in 1..keyframes.len()` (i is 1-based here: i >= 2)
FlipStep(keyframes, i) ==
    IF QDot(keyframes[i - 1].rotation, keyframes[i].rotation) < 0
    THEN [keyframes EXCEPT ![i].rotation = QNeg(keyframes[i].rotation)]
    ELSE keyframes

RECURSIVE ShortestPathFrom(_, _)
ShortestPathFrom(keyframes, i) ==
    IF i > Len(keyframes) THEN keyframes
    ELSE ShortestPathFrom(FlipStep(keyframes, i), i + 1)

ShortestPathAgainstInput(keyframes) ==
    [i \in 1..Len(keyframes) |->
        IF i > 1 /\ QDot(keyframes[i - 1].rotation, keyframes[i].rotation) < 0
        THEN [keyframes[i] EXCEPT !.rotation = QNeg(keyframes[i].rotation)]
        ELSE keyframes[i]]
ShortestPath(keyframes) == ShortestPathFrom(keyframes, 2)

Knots(keyframes) ==
    IF Len(keyframes) = 1
    THEN <<keyframes[1].time, keyframes[1].time, keyframes[1].time>>
    ELSE <<keyframes[1].time, keyframes[1].time,
           keyframes[2].time, keyframes[2].time>>

with_keyframes_truncating(keyframes) ==
    LET fixed == ShortestPath(Sort(keyframes))
    IN  [keyframes |-> <<BSplineNew(1, SubSeq(fixed, 2, Len(fixed)), Knots(fixed))>>]
with_keyframes(keyframes) ==
    LET fixed == ShortestPath(Sort(keyframes))
    IN  [keyframes |-> <<BSplineNew(1, fixed, Knots(fixed))>>]

\* --------------------------------------------------------------- queries
LevelTransform(spline, time) ==
    IF Len(spline.control_points) = 1
    THEN KeyframeTransform(spline.control_points[1], 0)
    ELSE KeyframeTransform(BSplinePoint(spline, time), 1)

RECURSIVE TransformFrom(_, _, _, _)
TransformFrom(splines, time, i, acc) ==
    IF i > Len(splines) THEN acc
    ELSE TransformFrom(splines, time, i + 1,
                       TransformMul(LevelTransform(splines[i], time), acc))

transform(self, time) == TransformFrom(self.keyframes, time, 1, TransformIdentity)

RECURSIVE FoldAll(_, _, _)
FoldAll(splines, i, acc) ==
    IF i > Len(splines) THEN acc
    ELSE FoldAll(splines, i + 1, acc /\ Len(splines[i].control_points) > 1)

is_animated_any(self) ==
    self.keyframes = <<>> \/ \E i \in DOMAIN self.keyframes :
                                 Len(self.keyframes[i].control_points) > 1
is_animated(self) ==
    self.keyframes = <<>> \/ FoldAll(self.keyframes, 1, TRUE)

\* One iteration of `for i in 0..128`: acc.bbox is `ret`, acc.samples lists
\* the times at which self.transform was evaluated so far, so the loop index
\* i is its length.
SampleStep(self, bx, start, end, acc) ==
    LET time == lerp(Len(acc.samples), start, end)
        t == transform(self, time)
    IN  [bbox |-> box_union(acc.bbox, TransformBBox(t, bx)),
         samples |-> Append(acc.samples, time)]

\* The loop: up to `steps` further iterations, in order, while i < n.  The
\* iterations are split in two consecutive runs only to keep the evaluation
\* shallow; the order of the iterations is the loop's.
RECURSIVE SampleFrom(_, _, _, _, _, _, _)
SampleFrom(self, bx, start, end, n, steps, acc) ==
    IF Len(acc.samples) >= n THEN acc
    ELSE IF steps = 1 THEN SampleStep(self, bx, start, end, acc)
    ELSE SampleFrom(self, bx, start, end, n, steps - steps \div 2,
                    SampleFrom(self, bx, start, end, n, steps \div 2, acc))

animation_bounds_short(self, bx, start, end) ==
    IF ~is_animated(self)
    THEN [bbox |-> TransformBBox(transform(self, TimeDen * start), bx),
          samples |-> <<TimeDen * start>>]
    ELSE SampleFrom(self, bx, start, end, NumSamples - 1, NumSamples,
                    [bbox |-> BBoxNew, samples |-> <<>>])
animation_bounds_at_end(self, bx, start, end) ==
    IF ~is_animated(self)
    THEN [bbox |-> TransformBBox(transform(self, TimeDen * end), bx),
          samples |-> <<TimeDen * end>>]
    ELSE SampleFrom(self, bx, start, end, NumSamples, NumSamples,
                    [bbox |-> BBoxNew, samples |-> <<>>])
animation_bounds(self, bx, start, end) ==
    IF ~is_animated(self)
    THEN [bbox |-> TransformBBox(transform(self, TimeDen * start), bx),
          samples |-> <<TimeDen * start>>]
    ELSE SampleFrom(self, bx, start, end, NumSamples, NumSamples,
                    [bbox |-> BBoxNew, samples |-> <<>>])

\* ------------------------------------------------------------------- mul
RECURSIVE PushFrom(_, _, _)
PushFrom(dst, src, i) ==
    IF i > Len(src) THEN dst
    ELSE PushFrom(Append(dst, src[i]), src, i + 1)

mul_self_first(self, rhs) == [keyframes |-> PushFrom(self.keyframes, rhs.keyframes, 1)]
mul_skipping(self, rhs) == [keyframes |-> PushFrom(rhs.keyframes, self.keyframes, 2)]
mul(self, rhs) == [keyframes |-> PushFrom(rhs.keyframes, self.keyframes, 1)]

\* ------------------------------------------------------------ the inputs
\* Keyframes of the scene driven through the API (rotations about x only)
KStatic == [time |-> 0, translation |-> 1, rotation |-> QHalfTurnX, scaling |-> 2]
KFrom == [time |-> 0, translation |-> 0, rotation |-> QId, scaling |-> 1]
KTo == [time |-> MaxTime, translation |-> 2, rotation |-> QNeg(QId), scaling |-> 2]

SceneInputs == {<<KStatic>>, <<KTo, KFrom>>, <<KStatic, KTo>>}

\* Keyframe lists given to with_keyframes alone
Rotations == {QId, QNeg(QId), QHalfTurnX}
KfPool == [time : 0..MaxTime, translation : {0, 1}, rotation : Rotations, scaling : {1}]
KfInputs == UNION {[1..n -> KfPool] : n \in 1..MaxKeys}

\* Every value of the type: any list of levels, the empty list included
SceneLevels == {with_keyframes(kfs).keyframes[1] : kfs \in SceneInputs}
AnyTransforms == {[keyframes |-> ls] : ls \in UNION {[1..n -> SceneLevels] : n \in 0..MaxLevels}}

Boxes == {[empty |-> FALSE, min |-> 0, max |-> 1, k |-> 0],
          [empty |-> FALSE, min |-> 0 - 1, max |-> 2, k |-> 0]}

\* --------------------------------------------------------------- state
\* a, b: the two AnimatedTransform values a caller holds (<<>> when it holds
\* none, <<v>> otherwise); call: the last call and its arguments; ret: what
\* that call returned.
NoTransform == [keyframes |-> <<>>]
NoCall == [op |-> "none", keyframes |-> <<>>, self |-> NoTransform, rhs |-> NoTransform,
           time |-> 0, bx |-> BBoxNew, start |-> 0, end |-> 0]
NoRet == [t |-> TransformIdentity, bbox |-> BBoxNew, samples |-> <<>>, flag |-> FALSE]

Levels(slot) == IF slot = <<>> THEN 0 ELSE Len(slot[1].keyframes)

Init ==
    /\ a = <<>>
    /\ b = <<>>
    /\ call = NoCall
    /\ ret = NoRet

InitAny ==
    /\ a \in {<<v>> : v \in AnyTransforms}
    /\ b \in {<<v>> : v \in AnyTransforms}
    /\ call = NoCall
    /\ ret = NoRet

\* let x = AnimatedTransform::with_keyframes(keyframes)
NewA(keyframes) ==
    /\ a = <<>>
    /\ Levels(b) < MaxLevels
    /\ a' = <<with_keyframes(keyframes)>>
    /\ call' = [NoCall EXCEPT !.op = "with_keyframes", !.keyframes = keyframes]
    /\ ret' = NoRet
    /\ UNCHANGED b

NewB(keyframes) ==
    /\ b = <<>>
    /\ Levels(a) < MaxLevels
    /\ b' = <<with_keyframes(keyframes)>>
    /\ call' = [NoCall EXCEPT !.op = "with_keyframes", !.keyframes = keyframes]
    /\ ret' = NoRet
    /\ UNCHANGED a

\* a * b: consumes both operands
MulAB ==
    /\ a # <<>>
    /\ b # <<>>
    /\ a' = <<mul(a[1], b[1])>>
    /\ b' = <<>>
    /\ call' = [NoCall EXCEPT !.op = "mul", !.self = a[1], !.rhs = b[1]]
    /\ ret' = NoRet

\* b * a
MulBA ==
    /\ a # <<>>
    /\ b # <<>>
    /\ a' = <<mul(b[1], a[1])>>
    /\ b' = <<>>
    /\ call' = [NoCall EXCEPT !.op = "mul", !.self = b[1], !.rhs = a[1]]
    /\ ret' = NoRet

\* a.transform(t)
TransformA(t) ==
    /\ a # <<>>
    /\ call' = [NoCall EXCEPT !.op = "transform", !.self = a[1], !.time = t]
    /\ ret' = [NoRet EXCEPT !.t = transform(a[1], TimeDen * t)]
    /\ UNCHANGED <<a, b>>

\* a.is_animated()
IsAnimatedA ==
    /\ a # <<>>
    /\ call' = [NoCall EXCEPT !.op = "is_animated", !.self = a[1]]
    /\ ret' = [NoRet EXCEPT !.flag = is_animated(a[1])]
    /\ UNCHANGED <<a, b>>

\* a.animation_bounds(&bx, start, end)
AnimationBoundsA(bx, start, end) ==
    /\ a # <<>>
    /\ call' = [NoCall EXCEPT !.op = "animation_bounds", !.self = a[1], !.bx = bx,
                              !.start = start, !.end = end]
    /\ LET r == animation_bounds(a[1], bx, start, end)
       IN  ret' = [NoRet EXCEPT !.bbox = r.bbox, !.samples = r.samples]
    /\ UNCHANGED <<a, b>>

Next ==
    \/ \E kfs \in SceneInputs : NewA(kfs)
    \/ \E kfs \in SceneInputs : NewB(kfs)
    \/ MulAB
    \/ MulBA
    \/ \E t \in 0..MaxTime : TransformA(t)
    \/ IsAnimatedA
    \/ \E bx \in Boxes : \E start \in 0..MaxTime : \E end \in start..MaxTime :
          AnimationBoundsA(bx, start, end)

Spec == Init /\ [][Next]_vars

\* with_keyframes alone, over every keyframe list of the pool
NextKf == a = <<>> /\ \E kfs \in KfInputs : NewA(kfs)

SpecKf == Init /\ [][NextKf]_vars

\* mul and is_animated over every value of the type
NextAny ==
    \/ MulAB
    \/ MulBA
    \/ IsAnimatedA

SpecAny == InitAny /\ [][NextAny]_vars

\* ---------------------------------------------------------------- claims
\* inner lies inside outer
Contains(outer, inner) ==
    \/ inner.empty
    \/ /\ ~outer.empty
       /\ LET k == Max(outer.k, inner.k)
              o == BBoxRescale(outer, k)
              n == BBoxRescale(inner, k)
          IN  o.min <= n.min /\ n.max <= o.max

\* every time of the timeline that is a multiple of 1 / TimeDen
Ticks == 0..(TimeDen * MaxTime)

MulOfSingleLevels ==
    /\ call.op = "mul"
    /\ Len(call.self.keyframes) = 1
    /\ Len(call.rhs.keyframes) = 1

\* C1 as stated: for A = self and B = rhs each built by with_keyframes,
\* (A * B).transform(t) = B.transform(t) * A.transform(t) at every time t
\* (A's pose applied first, B's second).
C1_Original ==
    MulOfSingleLevels =>
        \A t \in Ticks :
            transform(a[1], t) = TransformMul(transform(call.rhs, t), transform(call.self, t))

\* C1 amended: (A * B).transform(t) = A.transform(t) * B.transform(t) at every
\* time t: the pose of rhs = B is applied first (innermost) and the pose of
\* self = A second (outermost).
C1_Amended ==
    MulOfSingleLevels =>
        \A t \in Ticks :
            transform(a[1], t) = TransformMul(transform(call.self, t), transform(call.rhs, t))

\* a product of two one-level transforms whose poses do not commute
C1_Witness ==
    /\ MulOfSingleLevels
    /\ \E t \in Ticks :
          TransformMul(transform(call.self, t), transform(call.rhs, t))
            # TransformMul(transform(call.rhs, t), transform(call.self, t))

EveryLevelAnimated(at) ==
    \A i \in DOMAIN at.keyframes : Len(at.keyframes[i].control_points) > 1

\* C3: with at least one level, is_animated() is true iff every level has more
\* than one control keyframe; one one-keyframe level at any position makes it
\* false.
C3_AnimatedIffEveryLevel ==
    (call.op = "is_animated" /\ call.self.keyframes # <<>>) =>
        /\ ret.flag = EveryLevelAnimated(call.self)
        /\ (\E i \in DOMAIN call.self.keyframes :
               Len(call.self.keyframes[i].control_points) = 1) => ret.flag = FALSE

\* is_animated() answered false for a chain that mixes a one-keyframe level
\* with a multi-keyframe level
C3_Witness ==
    /\ call.op = "is_animated"
    /\ ret.flag = FALSE
    /\ \E i, j \in DOMAIN call.self.keyframes :
          /\ Len(call.self.keyframes[i].control_points) = 1
          /\ Len(call.self.keyframes[j].control_points) > 1

BoxAt(at, bx, time) == TransformBBox(transform(at, time), bx)

\* C4: animation_bounds(b, start, end) contains transform(start) * b and
\* transform(end) * b, for every transform the API builds, chains that mix
\* one-keyframe and multi-keyframe levels included.
C4_BoundsContainEndpoints ==
    call.op = "animation_bounds" =>
        /\ Contains(ret.bbox, BoxAt(call.self, call.bx, TimeDen * call.start))
        /\ Contains(ret.bbox, BoxAt(call.self, call.bx, TimeDen * call.end))

\* the i-th sample time start + (end - start) * i / 127, over TimeDen
SampleTime(i, start, end) == TimeDen * start + (end - start) * i

\* C5: when is_animated() is true, animation_bounds(b, start, end) evaluates
\* the transform at exactly the 128 times lerp(i / 127, start, end), i = 0..127,
\* the first being start and the last end, and returns the union of the 128
\* transformed boxes: it contains each of them and is the least such box.
C5_UnionOfSamples ==
    (call.op = "animation_bounds" /\ EveryLevelAnimated(call.self)) =>
        /\ Len(ret.samples) = NumSamples
        /\ \A i \in 0..(NumSamples - 1) :
              /\ ret.samples[i + 1] = SampleTime(i, call.start, call.end)
              /\ Contains(ret.bbox, BoxAt(call.self, call.bx, SampleTime(i, call.start, call.end)))
        /\ ret.samples[1] = TimeDen * call.start
        /\ ret.samples[NumSamples] = TimeDen * call.end
        /\ ~ret.bbox.empty
        /\ \E i \in 0..(NumSamples - 1) :
              BBoxRescale(BoxAt(call.self, call.bx, SampleTime(i, call.start, call.end)),
                          ret.bbox.k).min = ret.bbox.min
        /\ \E i \in 0..(NumSamples - 1) :
              BBoxRescale(BoxAt(call.self, call.bx, SampleTime(i, call.start, call.end)),
                          ret.bbox.k).max = ret.bbox.max

\* bounds of an animated chain over start < end, larger than the box at start
\* and larger than the box at end
C5_Witness ==
    /\ call.op = "animation_bounds"
    /\ EveryLevelAnimated(call.self)
    /\ call.start < call.end
    /\ Len(ret.samples) = NumSamples
    /\ ~Contains(BoxAt(call.self, call.bx, TimeDen * call.start), ret.bbox)
    /\ ~Contains(BoxAt(call.self, call.bx, TimeDen * call.end), ret.bbox)

\* C6: when is_animated() is false, animation_bounds(b, start, end) evaluates
\* the transform once, at start, returns exactly transform(start) * b, and the
\* result is the same for every end.
C6_StaticBoundsAtStart ==
    (call.op = "animation_bounds" /\ ~EveryLevelAnimated(call.self)) =>
        /\ ret.samples = <<TimeDen * call.start>>
        /\ ret.bbox = BoxAt(call.self, call.bx, TimeDen * call.start)
        /\ \A e \in call.start..MaxTime :
              animation_bounds(call.self, call.bx, call.start, e).bbox = ret.bbox

\* bounds of a chain that is_animated() calls not animated, over start < end,
\* although the box at end differs from the box at start
C6_Witness ==
    /\ call.op = "animation_bounds"
    /\ ~EveryLevelAnimated(call.self)
    /\ call.start < call.end
    /\ ret.samples = <<TimeDen * call.start>>
    /\ BoxAt(call.self, call.bx, TimeDen * call.end) # ret.bbox

\* the control keyframes of the level with_keyframes built
Stored == a[1].keyframes[1].control_points

\* a keyframe with its rotation taken up to sign
UpToSign(kf) ==
    IF \E i \in 1..4 : /\ kf.rotation[i] < 0
                       /\ \A j \in 1..(i - 1) : kf.rotation[j] = 0
    THEN [kf EXCEPT !.rotation = QNeg(kf.rotation)]
    ELSE kf

Count(seq, kf) == Cardinality({i \in DOMAIN seq : UpToSign(seq[i]) = UpToSign(kf)})

\* C7: the keyframes stored by with_keyframes are a permutation of the input
\* (rotations up to sign) and are in non-decreasing order of time.
C7_SortedPermutation ==
    call.op = "with_keyframes" =>
        /\ Len(Stored) = Len(call.keyframes)
        /\ \A i \in DOMAIN call.keyframes :
              Count(Stored, call.keyframes[i]) = Count(call.keyframes, call.keyframes[i])
        /\ \A i \in 1..(Len(Stored) - 1) : Stored[i].time <= Stored[i + 1].time

\* with_keyframes on a list that is not in time order and holds a repeated time
C7_Witness ==
    /\ call.op = "with_keyframes"
    /\ \E i \in 1..(Len(call.keyframes) - 1) :
          call.keyframes[i].time > call.keyframes[i + 1].time
    /\ \E i, j \in DOMAIN call.keyframes :
          i # j /\ call.keyframes[i].time = call.keyframes[j].time
    /\ Stored # call.keyframes

\* C8: adjacent stored keyframes have rotation dot product >= 0.
C8_ShortestPath ==
    call.op = "with_keyframes" =>
        \A i \in 1..(Len(Stored) - 1) :
            QDot(Stored[i].rotation, Stored[i + 1].rotation) >= 0

\* with_keyframes on a list given out of time order, where a keyframe was
\* flipped and its successor was then decided against the flipped rotation:
\* the successor's input rotation has a negative dot product with the
\* predecessor's input rotation, and it was left as it was
C8_Witness ==
    /\ call.op = "with_keyframes"
    /\ \E i \in 1..(Len(call.keyframes) - 1) :
          call.keyframes[i].time > call.keyframes[i + 1].time
    /\ \E i \in 2..(Len(Stored) - 1) :
          LET sorted == Sort(call.keyframes)
          IN  /\ Stored[i].rotation = QNeg(sorted[i].rotation)
              /\ QDot(sorted[i].rotation, sorted[i + 1].rotation) < 0
              /\ Stored[i + 1].rotation = sorted[i + 1].rotation

\* C9: self * rhs holds rhs's levels in their order followed by self's levels
\* in their order: len(rhs) + len(self) levels, none dropped, duplicated,
\* reordered or altered; zero-level operands included.
C9_MulConcatenates ==
    call.op = "mul" =>
        LET res == a[1].keyframes
            r == call.rhs.keyframes
            s == call.self.keyframes
        IN  /\ Len(res) = Len(r) + Len(s)
            /\ \A i \in 1..Len(r) : res[i] = r[i]
            /\ \A j \in 1..Len(s) : res[Len(r) + j] = s[j]

\* a product of two operands of two different levels each
C9_Witness ==
    /\ call.op = "mul"
    /\ Len(call.self.keyframes) = 2
    /\ Len(call.rhs.keyframes) = 2
    /\ call.self.keyframes[1] # call.self.keyframes[2]
    /\ call.rhs.keyframes[1] # call.rhs.keyframes[2]
    /\ call.rhs.keyframes # call.self.keyframes
    /\ Len(a[1].keyframes) = 4

WellFormed(slot) ==
    slot # <<>> =>
        /\ Len(slot[1].keyframes) >= 1
        /\ \A i \in DOMAIN slot[1].keyframes :
              Len(slot[1].keyframes[i].control_points) >= 1

\* C10: every transform built by with_keyframes on non-empty lists and mul has
\* at least one level, and each level holds at least one control keyframe.
C10_NeverEmpty == WellFormed(a) /\ WellFormed(b)

\* a product of MaxLevels levels, one of them of a single keyframe
C10_Witness ==
    /\ call.op = "mul"
    /\ Len(a[1].keyframes) = MaxLevels
    /\ \E i \in DOMAIN a[1].keyframes : Len(a[1].keyframes[i].control_points) = 1

====
